---- MODULE Spec2Model ----
(***************************************************************************)
(* Shopify-Domains-Scraper: the three crawl-and-probe pipelines.           *)
(*   main.py    discovery : paginated listing -> domains -> CSV sink       *)
(*   main2.py   widget    : per-domain probe, VerifyPass marker detection  *)
(*   script.py  locale    : per-domain probe, Indian-storefront indicators *)
(* Each behaviour of the model is one run of one of the three programs.    *)
(* Text (domains, markup, CSV fields) is modelled as strings, handled      *)
(* character by character (SubSeq, Len, \o).                               *)
(***************************************************************************)
EXTENDS Integers, Sequences, FiniteSets, TLC

(* ------------------------------ bounds ---------------------------------- *)

\* Highest page number of the listing / highest last-page override.
MaxPage == 3

\* Longest input domain list of a probing run.
MaxDomains == 3
MaxUrlRows == 2

\* Domains per batch of a probing run.  main2.py:137 and script.py:180 set
\* batch_size = 50; the model runs the same loop with a small batch so that
\* several batches occur within MaxDomains.
batch_size == 2

(* ------------------------- Python text helpers -------------------------- *)

None == "None"

Min(a, b) == IF a < b THEN a ELSE b

Char(s, k) == SubSeq(s, k, k)

\* str.startswith
StartsWith(s, p) == Len(s) >= Len(p) /\ SubSeq(s, 1, Len(p)) = p

\* str.endswith
EndsWith(s, p) == Len(s) >= Len(p) /\ SubSeq(s, Len(s) - Len(p) + 1, Len(s)) = p

\* `p in s` for strings
Contains(s, p) == \E k \in 1..(Len(s) - Len(p) + 1) : SubSeq(s, k, k + Len(p) - 1) = p

UpperAlphabet == "ABCDEFGHIJKLMNOPQRSTUVWXYZ"
LowerAlphabet == "abcdefghijklmnopqrstuvwxyz"

LowerChar(c) ==
    IF \E k \in 1..Len(UpperAlphabet) : Char(UpperAlphabet, k) = c
    THEN Char(LowerAlphabet, CHOOSE k \in 1..Len(UpperAlphabet) : Char(UpperAlphabet, k) = c)
    ELSE c

UpperChar(c) ==
    IF \E k \in 1..Len(LowerAlphabet) : Char(LowerAlphabet, k) = c
    THEN Char(UpperAlphabet, CHOOSE k \in 1..Len(LowerAlphabet) : Char(LowerAlphabet, k) = c)
    ELSE c

RECURSIVE Lower(_)
\* str.lower
Lower(s) == IF s = "" THEN "" ELSE LowerChar(Char(s, 1)) \o Lower(SubSeq(s, 2, Len(s)))

RECURSIVE Upper(_)
\* str.upper
Upper(s) == IF s = "" THEN "" ELSE UpperChar(Char(s, 1)) \o Upper(SubSeq(s, 2, Len(s)))

IsSpace(c) == c \in {" ", "\n", "\t"}

RECURSIVE LStrip(_)
LStrip(s) == IF s # "" /\ IsSpace(Char(s, 1)) THEN LStrip(SubSeq(s, 2, Len(s))) ELSE s

RECURSIVE RStrip(_)
RStrip(s) == IF s # "" /\ IsSpace(Char(s, Len(s))) THEN RStrip(SubSeq(s, 1, Len(s) - 1)) ELSE s

\* str.strip
Strip(s) == RStrip(LStrip(s))

Digits == "0123456789"

RECURSIVE Str(_)
\* str(n) of a non-negative int, as csv.writer and f-strings render it
Str(n) == IF n < 10 THEN Char(Digits, n + 1)
          ELSE Str(n \div 10) \o Char(Digits, (n % 10) + 1)

DigitValue(c) == (CHOOSE k \in 1..10 : Char(Digits, k) = c) - 1

RECURSIVE ParseInt(_)
\* int(s) of a decimal numeral
ParseInt(s) == IF Len(s) = 1 THEN DigitValue(s)
               ELSE 10 * ParseInt(SubSeq(s, 1, Len(s) - 1)) + DigitValue(Char(s, Len(s)))

\* str(b) of a bool, as csv.writer renders it
BoolStr(b) == IF b THEN "True" ELSE "False"

\* csv.writer renders None as the empty field
CsvField(v) == IF v = None THEN "" ELSE v

RECURSIVE Join(_, _)
\* sep.join(list)
Join(sep, list) ==
    IF list = <<>> THEN ""
    ELSE IF Len(list) = 1 THEN list[1]
    ELSE list[1] \o sep \o Join(sep, Tail(list))

RECURSIVE Concat(_)
\* list.extend over a sequence of lists
Concat(lists) == IF lists = <<>> THEN <<>> ELSE Head(lists) \o Concat(Tail(lists))

IsPrefix(s, t) == Len(s) <= Len(t) /\ SubSeq(t, 1, Len(s)) = s

(* ------------------------------ inputs ---------------------------------- *)

Pipelines == {"discovery", "widget", "locale"}

\* datetime.now().strftime('%Y-%m-%d %H:%M:%S'), read from the wall clock
Timestamps == {"2024-01-01 10:00:00"}

\* HTTP status codes a server answers with
StatusCodes == {"200", "404"}

\* Exceptions a request or a body read can raise: asyncio.TimeoutError, or
\* any other error (str(e) is its description)
Exceptions == {"Timeout", "Cannot connect to host"}

\* A Python value that is an int or None (or a name not yet bound)
PyInt(n) == [type |-> "int", val |-> n]
PyNone == [type |-> "NoneType", val |-> 0]
Unbound == [type |-> "unbound", val |-> 0]

(* discovery *)

\* The command line after the zone: <<>> or <<last_page>>
ArgvTails == {<<>>} \cup {<<n>> : n \in (0 - 1)..MaxPage}

\* The landing page: status, and the texts of the <li> of the pagination
\* control (<<>>: no element of class 'pagination')
LandingPages ==
    {[status |-> c, pagination |-> <<>>] : c \in StatusCodes}
    \cup {[status |-> "200", pagination |-> [k \in 1..n |-> Str(k)]] : n \in 1..MaxPage}

\* A listing page: the texts of its elements of class 'col-lg-4 col-md-4 col-sm-12'
PageMarkups == { <<>>,
                 <<"\n shop.com ">>,
                 <<"a.com", "shop.com.uk", "b.com">> }

(* probing *)

DomainNames == {"a.com", "https://b.com"}

RECURSIVE SeqsUpTo(_, _)
SeqsUpTo(S, n) ==
    IF n = 0 THEN {<<>>}
    ELSE LET shorter == SeqsUpTo(S, n - 1)
         IN  shorter \cup {Append(q, x) : q \in {r \in shorter : Len(r) = n - 1}, x \in S}

\* The Domain column of the input CSV
InputLists == SeqsUpTo(DomainNames, MaxDomains)

\* Domain fields with and without a scheme; one scheme-less host name begins
\* with the letters 'http'
UrlNames == {"shop.in", "http://c.com", "httpbin.org"}

UrlLists == SeqsUpTo(UrlNames, MaxUrlRows)

(* ------------------------------- state ---------------------------------- *)

VARIABLES
    pipeline,     \* which of the three programs runs
    pc,           \* position of the main program
    error,        \* message of the exception that ended the run ("" if none)
    sys_argv,     \* discovery: command line after the zone
    last_page,    \* discovery: main.py last_page
    tasks,        \* discovery: page_num -> scrape task
    all_domains,  \* discovery: result of fetch
    domains,      \* probing: input CSV rows (Domain column)
    i,            \* probing: offset of the current batch in main's loop
    probes,       \* probing: input position -> check_domain unit
    results,      \* widget: main's accumulated results list
    sink,         \* the incremental CSV file: sequence of rows
    sinkBy,       \* history: which unit appended each row of sink (0: header)
    resultsFile,  \* widget: the file save_results wrote
    landing,      \* discovery: history, the landing page last_page_finder received
    csv_rows,     \* probing: the Domain column of the input CSV file
    disk,         \* "ok", or "faulty" when an append to the sink may fail
    lost          \* history: the units whose append to the sink failed

vars == <<pipeline, pc, error, sys_argv, last_page, tasks, all_domains,
          domains, i, probes, results, sink, sinkBy, resultsFile,
          landing, csv_rows, disk, lost>>

discoveryVars == <<sys_argv, last_page, tasks, all_domains, landing>>
probingVars == <<domains, i, probes, results, resultsFile>>

NoFile == [name |-> "", rows |-> <<>>]

\* An append to the sink raises when the file cannot be opened or written
AppendFails == disk = "faulty"

\* str(e) of the OSError an append raises
DiskError == "No space left on device"

NoLanding == [status |-> "", pagination |-> <<>>]

\* The state of a run before its module is loaded, whatever the input
Start ==
    /\ pc = "load"
    /\ error = ""
    /\ last_page = Unbound
    /\ tasks = <<>>
    /\ all_domains = <<>>
    /\ domains = <<>>
    /\ i = 0
    /\ probes = <<>>
    /\ results = <<>>
    /\ sink = <<>>
    /\ sinkBy = <<>>
    /\ resultsFile = NoFile
    /\ landing = NoLanding
    /\ lost = {}

Init ==
    /\ pipeline \in Pipelines
    /\ sys_argv \in (IF pipeline = "discovery" THEN ArgvTails ELSE {<<>>})
    /\ csv_rows \in (IF pipeline = "discovery" THEN {<<>>} ELSE InputLists)
    /\ disk = "ok"
    /\ Start

\* Runs whose input CSV holds domain fields of every form
InitUrl ==
    /\ pipeline \in Pipelines
    /\ sys_argv \in (IF pipeline = "discovery" THEN ArgvTails ELSE {<<>>})
    /\ csv_rows \in (IF pipeline = "discovery" THEN {<<>>} ELSE UrlLists)
    /\ disk = "ok"
    /\ Start

\* Runs on a disk where an append to the sink may fail
InitFault ==
    /\ pipeline \in Pipelines
    /\ sys_argv \in (IF pipeline = "discovery" THEN ArgvTails ELSE {<<>>})
    /\ csv_rows \in (IF pipeline = "discovery" THEN {<<>>} ELSE InputLists)
    /\ disk = "faulty"
    /\ Start

\* Runs whose input CSV repeats one domain: the lists of every length
InitFair ==
    /\ pipeline \in Pipelines
    /\ sys_argv \in (IF pipeline = "discovery" THEN ArgvTails ELSE {<<>>})
    /\ csv_rows \in (IF pipeline = "discovery" THEN {<<>>}
                     ELSE {[k \in 1..n |-> "a.com"] : n \in 0..MaxDomains})
    /\ disk = "ok"
    /\ Start

(* --------------------- module load: sink initialisation ----------------- *)

Header(p) ==
    CASE p = "discovery" -> <<"Page", "Domain", "Timestamp">>
      [] p = "widget"    -> <<"Domain", "Timestamp", "Status">>
      [] p = "locale"    -> <<"Domain", "Confidence", "Indicators", "Country_Code", "Shop_ID", "Timestamp">>

\* open(name, 'w') ... writer.writerow(header): the file holds the header only
InitSink(p) == <<Header(p)>>

\* The module-level statements that run before main: the sink is created.
LoadModule ==
    /\ pc = "load"
    /\ sink' = InitSink(pipeline)
    /\ sinkBy' = <<0>>
    /\ pc' = "main"
    /\ UNCHANGED <<pipeline, csv_rows, disk, error, discoveryVars, probingVars, lost>>

(* ------------------- asyncio.gather over a dispatch group --------------- *)

\* gather(..., return_exceptions=False) re-raises the first exception of a unit
GatherRaises(units, group, return_exceptions) ==
    /\ ~return_exceptions
    /\ \E u \in group : units[u].ret = "exception"

\* Variant: the await returns as soon as one unit of the group has finished
GatherDoneFirstCompleted(units, group) == \E u \in group : units[u].st = "done"

GatherDone(units, group) == \A u \in group : units[u].st = "done"

\* When the exception leaves main, asyncio.run cancels the tasks still pending.
CancelPending(units) ==
    [u \in DOMAIN units |->
        IF units[u].st = "done" THEN units[u]
        ELSE [units[u] EXCEPT !.st = "done", !.ret = "cancelled"]]

(* ============================ main.py: discovery ======================== *)

DOMAIN_ZONE == "com"

\* Variant: only the first domain of the page is written
save_to_csv_first_only(file, page_domains, page_num, current_time) ==
    Append(file, <<Str(page_num), page_domains[1], current_time>>)

\* Variant: the file is opened with 'w', so the rows replace its content
save_to_csv_truncating(file, page_domains, page_num, current_time) ==
    [k \in 1..Len(page_domains) |-> <<Str(page_num), page_domains[k], current_time>>]

\* with open(output_filename, 'a'): one row per domain, all with the same time
save_to_csv(file, page_domains, page_num, current_time) ==
    file \o [k \in 1..Len(page_domains) |-> <<Str(page_num), page_domains[k], current_time>>]

\* Variant: the loop of save_to_csv awaits after each row
SaveLoopStepOneRow(page_domains) == 1

\* save_to_csv holds no await: its loop writes every row of the page before
\* the event loop can run another unit
SaveLoopStep(page_domains) == Len(page_domains)

RECURSIVE SelectDomains(_, _)
\* scrape's loop over the candidate elements: keep the trimmed text of those
\* that end with '.{DOMAIN_ZONE}'
SelectDomains(links, zone) ==
    IF links = <<>> THEN <<>>
    ELSE LET text == Strip(Head(links))
             rest == SelectDomains(Tail(links), zone)
         IN  IF EndsWith(text, "." \o zone) THEN <<text>> \o rest ELSE rest

\* SelectDomains on every listing page, computed once
PageDomainsOf == [text \in PageMarkups |-> SelectDomains(text, DOMAIN_ZONE)]

\* Variant: gather without return_exceptions
fetch_raise_exceptions == FALSE

\* gather(*tasks, return_exceptions=True) in fetch
fetch_return_exceptions == TRUE

\* range(1, last_page)
FetchRange(n) == 1..(n - 1)

NewTask == [st |-> "requested", ret |-> "pending", page_domains |-> <<>>]

InvalidLastPageNever(n) == FALSE

\* __main__: if last_page < 0
InvalidLastPage(n) == n < 0

\* __main__: the explicit last-page argument, when given
MainArgs ==
    /\ pipeline = "discovery"
    /\ pc = "main"
    /\ IF Len(sys_argv) > 0
       THEN IF InvalidLastPage(sys_argv[1])
            THEN /\ pc' = "aborted"
                 /\ error' = "Last Page cannot be less than 0"
                 /\ last_page' = PyInt(sys_argv[1])
            ELSE /\ pc' = "fetch"
                 /\ last_page' = PyInt(sys_argv[1])
                 /\ UNCHANGED error
       ELSE /\ pc' = "resolve"
            /\ UNCHANGED <<last_page, error>>
    /\ UNCHANGED <<pipeline, csv_rows, disk, sys_argv, tasks, all_domains, landing, probingVars, sink, sinkBy, lost>>

\* last_page = last_page_finder(): the blocking request for the landing page
LastPageFinder ==
    /\ pipeline = "discovery"
    /\ pc = "resolve"
    /\ \E res \in LandingPages :
        /\ landing' = res
        /\ IF res.status = "200"
           THEN IF res.pagination # <<>>
                THEN /\ last_page' = PyInt(ParseInt(res.pagination[Len(res.pagination)]))
                     /\ pc' = "fetch"
                     /\ UNCHANGED error
                ELSE /\ pc' = "aborted"
                     /\ error' = "Invalid Domain Zone"
                     /\ UNCHANGED last_page
           ELSE \* the function falls off its end: None
                /\ last_page' = PyNone
                /\ pc' = "fetch"
                /\ UNCHANGED error
    /\ UNCHANGED <<pipeline, csv_rows, disk, sys_argv, tasks, all_domains, probingVars, sink, sinkBy, lost>>

\* fetch(last_page) up to its await: one task per page of range(1, last_page)
Fetch ==
    /\ pipeline = "discovery"
    /\ pc = "fetch"
    /\ IF last_page.type = "int"
       THEN /\ tasks' = [page_num \in FetchRange(last_page.val) |-> NewTask]
            /\ pc' = "gather"
            /\ UNCHANGED error
       ELSE \* range(1, None)
            /\ pc' = "aborted"
            /\ error' = "TypeError"
            /\ UNCHANGED tasks
    /\ UNCHANGED <<pipeline, csv_rows, disk, sys_argv, last_page, all_domains, landing, probingVars,
                   sink, sinkBy, lost>>

\* scrape: the response of session.get arrives (or the request raises)
ScrapeResponse(page_num) ==
    /\ pipeline = "discovery"
    /\ pc = "gather"
    /\ page_num \in DOMAIN tasks
    /\ tasks[page_num].st = "requested"
    /\ \/ \E status \in StatusCodes :
            tasks' = [tasks EXCEPT ![page_num] =
                        IF status = "200"
                        THEN [@ EXCEPT !.st = "reading"]
                        ELSE [@ EXCEPT !.st = "done", !.ret = "None"]]
       \/ tasks' = [tasks EXCEPT ![page_num] = [@ EXCEPT !.st = "done", !.ret = "exception"]]
    /\ UNCHANGED <<pipeline, csv_rows, disk, pc, error, sys_argv, last_page, all_domains, landing,
                   probingVars, sink, sinkBy, lost>>

\* scrape: res.text() arrives (or raises); the page is parsed, its domains
\* are saved and returned
ScrapeText(page_num) ==
    /\ pipeline = "discovery"
    /\ pc = "gather"
    /\ page_num \in DOMAIN tasks
    /\ \/ /\ tasks[page_num].st = "reading"
          /\ \E text \in PageMarkups, current_time \in Timestamps :
                LET page_domains == PageDomainsOf[text]
                    n == Min(SaveLoopStep(page_domains), Len(page_domains))
                IN  IF page_domains # <<>>
                    THEN /\ sink' = save_to_csv(sink, SubSeq(page_domains, 1, n), page_num,
                                                current_time)
                         /\ sinkBy' = sinkBy \o [k \in 1..n |-> page_num]
                         /\ tasks' = [tasks EXCEPT ![page_num] =
                                IF n = Len(page_domains)
                                THEN [st |-> "done", ret |-> "list",
                                      page_domains |-> page_domains]
                                ELSE [st |-> "saving", ret |-> "pending",
                                      page_domains |-> page_domains]]
                         /\ UNCHANGED lost
                    ELSE /\ tasks' = [tasks EXCEPT ![page_num] =
                                [st |-> "done", ret |-> "list", page_domains |-> <<>>]]
                         /\ UNCHANGED <<sink, sinkBy, lost>>
       \/ \* save_to_csv resumes its loop (only when the loop yields)
          /\ tasks[page_num].st = "saving"
          /\ \E current_time \in Timestamps :
                LET page_domains == tasks[page_num].page_domains
                    saved == Cardinality({k \in DOMAIN sinkBy : sinkBy[k] = page_num})
                    n == Min(saved + SaveLoopStep(page_domains), Len(page_domains))
                IN  /\ sink' = save_to_csv(sink, SubSeq(page_domains, saved + 1, n), page_num,
                                           current_time)
                    /\ sinkBy' = sinkBy \o [k \in 1..(n - saved) |-> page_num]
                    /\ tasks' = [tasks EXCEPT ![page_num] =
                            IF n = Len(page_domains)
                            THEN [@ EXCEPT !.st = "done", !.ret = "list"]
                            ELSE @]
                    /\ UNCHANGED lost
       \/ \* open(output_filename, 'a') raises inside save_to_csv
          /\ tasks[page_num].st = "reading"
          /\ AppendFails
          /\ \E text \in PageMarkups : PageDomainsOf[text] # <<>>
          /\ tasks' = [tasks EXCEPT ![page_num] = [@ EXCEPT !.st = "done", !.ret = "exception"]]
          /\ lost' = lost \cup {page_num}
          /\ UNCHANGED <<sink, sinkBy>>
       \/ /\ tasks[page_num].st = "reading"
          /\ tasks' = [tasks EXCEPT ![page_num] = [@ EXCEPT !.st = "done", !.ret = "exception"]]
          /\ UNCHANGED <<sink, sinkBy, lost>>
    /\ UNCHANGED <<pipeline, csv_rows, disk, pc, error, sys_argv, last_page, all_domains, landing,
                   probingVars>>

\* fetch after its await: the lists among the results are concatenated
FetchGather ==
    /\ pipeline = "discovery"
    /\ pc = "gather"
    /\ IF GatherRaises(tasks, DOMAIN tasks, fetch_return_exceptions)
       THEN /\ pc' = "aborted"
            /\ error' = "scrape raised"
            /\ tasks' = CancelPending(tasks)
            /\ UNCHANGED all_domains
       ELSE /\ GatherDone(tasks, DOMAIN tasks)
            /\ all_domains' = Concat([page_num \in DOMAIN tasks |->
                                  IF tasks[page_num].ret = "list"
                                  THEN tasks[page_num].page_domains ELSE <<>>])
            /\ pc' = "done"
            /\ UNCHANGED <<tasks, error>>
    /\ UNCHANGED <<pipeline, csv_rows, disk, sys_argv, last_page, landing, probingVars,
                   sink, sinkBy, lost>>

(* ================= probing: what main2.py and script.py share =========== *)

\* check_domain: "Ensure domain has https://"
EnsureScheme(domain) ==
    IF ~StartsWith(domain, "http") THEN "https://" \o domain ELSE domain

\* domains[i:i + batch_size], as positions of the input list
BatchUnits(offset, total) == (offset + 1)..Min(offset + batch_size, total)

\* The batch an input position belongs to (0-based, as i // batch_size)
BatchOf(u) == (u - 1) \div batch_size

\* load_domains_from_csv: the Domain field of every row, in file order
load_domains_from_csv(rows) == [k \in 1..Len(rows) |-> rows[k]]

\* A unit when its coroutine has run up to the await of session.get.
\* outcome, status and body record what the server answered.
NewProbe(domain) ==
    [st |-> "requested", ret |-> "pending", domain |-> EnsureScheme(domain),
     outcome |-> "pending", status |-> None, body |-> None, result |-> None]

OutcomeOf(e) == IF e = "Timeout" THEN "Timeout" ELSE "OtherError"

\* Variant: the batch is sliced from the start of the list, domains[:i + batch_size]
DispatchFromStart(units, list, offset) ==
    [u \in 1..Min(offset + batch_size, Len(list)) |-> NewProbe(list[u])]

\* tasks = [check_domain(session, domain) for domain in domains]; gather starts them
Dispatch(units, list, offset) ==
    [u \in (DOMAIN units) \cup BatchUnits(offset, Len(list)) |->
        IF u \in DOMAIN units THEN units[u] ELSE NewProbe(list[u])]

(* ============================= main2.py: widget ========================= *)

verifypass_indicators ==
    <<"verifypass.com", "verifypass.js", "verifypass-shopify", "data-verifypass">>

\* Variant: the body is not lower-cased before the comparison
has_verifypass_case_sensitive(html_content) ==
    \E k \in 1..Len(verifypass_indicators) :
        Contains(html_content, verifypass_indicators[k])

\* any(indicator in html_content.lower() for indicator in verifypass_indicators)
has_verifypass(html_content) ==
    \E k \in 1..Len(verifypass_indicators) :
        Contains(Lower(html_content), verifypass_indicators[k])

\* Response bodies that carry a marker (in some letter case), and that do not
MarkedBodies == {"<script src=//cdn.VerifyPass.com/w.JS>"}
PlainBodies == {"<p>Verify your pass</p>"}
WidgetBodies == MarkedBodies \cup PlainBodies

\* has_verifypass on every response body, computed once
DetectedIn == [html_content \in WidgetBodies |-> has_verifypass(html_content)]

\* with open(VERIFYPASS_FILE, 'a'): writer.writerow([domain, current_time, status])
save_verifypass_domain(file, domain, current_time, status) ==
    Append(file, <<domain, current_time, status>>)

\* Variant: the early return reports no error
InvalidStatusResultNoError(domain, status) ==
    [domain |-> domain, valid |-> FALSE, status |-> status, verifypass |-> FALSE,
     error |-> None]

\* if response.status != 200: return {...}
InvalidStatusResult(domain, status) ==
    [domain |-> domain, valid |-> FALSE, status |-> status, verifypass |-> FALSE,
     error |-> "Invalid status code: " \o status]

OkResult(domain, status, detected) ==
    [domain |-> domain, valid |-> TRUE, status |-> status, verifypass |-> detected,
     error |-> None]

\* Variant: the timeout is handled by the generic clause; str(e) of an
\* asyncio.TimeoutError is empty
TimeoutResultGeneric(domain) ==
    [domain |-> domain, valid |-> FALSE, status |-> None, verifypass |-> FALSE,
     error |-> ""]

\* except asyncio.TimeoutError
TimeoutResult(domain) ==
    [domain |-> domain, valid |-> FALSE, status |-> None, verifypass |-> FALSE,
     error |-> "Timeout"]

\* except Exception as e
ErrorResult(domain, e) ==
    [domain |-> domain, valid |-> FALSE, status |-> None, verifypass |-> FALSE,
     error |-> e]

\* check_domain's two except clauses: the unit returns a result
WidgetExcept(probe, e) ==
    [probe EXCEPT !.st = "done", !.ret = "dict", !.outcome = OutcomeOf(e),
                  !.result = IF e = "Timeout" THEN TimeoutResult(probe.domain)
                             ELSE ErrorResult(probe.domain, e)]

\* gather(*tasks) in process_domains
widget_return_exceptions == FALSE

\* main: domains = load_domains_from_csv(csv_file)
WidgetLoad ==
    /\ pipeline = "widget"
    /\ pc = "main"
    /\ domains' = load_domains_from_csv(csv_rows)
    /\ i' = 0
    /\ results' = <<>>
    /\ pc' = "loop"
    /\ UNCHANGED <<pipeline, csv_rows, disk, error, discoveryVars, probes, resultsFile, sink, sinkBy, lost>>

\* main: one iteration of the batch loop, up to the await in process_domains
WidgetDispatch ==
    /\ pipeline = "widget"
    /\ pc = "loop"
    /\ i < Len(domains)
    /\ probes' = Dispatch(probes, domains, i)
    /\ pc' = "gather"
    /\ UNCHANGED <<pipeline, csv_rows, disk, error, discoveryVars, domains, i, results, resultsFile,
                   sink, sinkBy, lost>>

\* check_domain: the response of session.get arrives (or the request raises)
WidgetResponse(u) ==
    /\ pipeline = "widget"
    /\ pc = "gather"
    /\ u \in DOMAIN probes
    /\ probes[u].st = "requested"
    /\ \/ \E status \in StatusCodes :
            probes' = [probes EXCEPT ![u] =
                IF status # "200"
                THEN [@ EXCEPT !.st = "done", !.ret = "dict", !.outcome = "NonOkStatus",
                               !.status = status,
                               !.result = InvalidStatusResult(probes[u].domain, status)]
                ELSE [@ EXCEPT !.st = "reading", !.status = status]]
       \/ \E e \in Exceptions :
            probes' = [probes EXCEPT ![u] = WidgetExcept(@, e)]
    /\ UNCHANGED <<pipeline, csv_rows, disk, pc, error, discoveryVars, domains, i, results, resultsFile,
                   sink, sinkBy, lost>>

\* check_domain: response.text() arrives (or raises); the markers are looked
\* for, a detection is saved, the result is returned
WidgetText(u) ==
    /\ pipeline = "widget"
    /\ pc = "gather"
    /\ u \in DOMAIN probes
    /\ probes[u].st = "reading"
    /\ \/ \E html_content \in WidgetBodies, current_time \in Timestamps :
            LET detected == DetectedIn[html_content]
                probe == probes[u]
            IN  /\ IF detected
                   THEN /\ sink' = save_verifypass_domain(sink, probe.domain, current_time,
                                                          probe.status)
                        /\ sinkBy' = Append(sinkBy, u)
                        /\ UNCHANGED lost
                   ELSE UNCHANGED <<sink, sinkBy, lost>>
                /\ probes' = [probes EXCEPT ![u] =
                        [@ EXCEPT !.st = "done", !.ret = "dict", !.outcome = "Ok",
                                  !.body = html_content,
                                  !.result = OkResult(probe.domain, probe.status, detected)]]
       \/ \* open(VERIFYPASS_FILE, 'a') raises inside save_verifypass_domain:
          \* the handler of check_domain catches the error
          /\ AppendFails
          /\ \E html_content \in WidgetBodies : DetectedIn[html_content]
          /\ probes' = [probes EXCEPT ![u] = WidgetExcept(@, DiskError)]
          /\ lost' = lost \cup {u}
          /\ UNCHANGED <<sink, sinkBy>>
       \/ /\ \E e \in Exceptions :
                probes' = [probes EXCEPT ![u] = WidgetExcept(@, e)]
          /\ UNCHANGED <<sink, sinkBy, lost>>
    /\ UNCHANGED <<pipeline, csv_rows, disk, pc, error, discoveryVars, domains, i, results, resultsFile>>

\* Variant: the results are collected as the units complete, last first
BatchResultsReversed(units, offset, n) == [k \in 1..n |-> units[offset + n + 1 - k].result]

\* return await asyncio.gather(*tasks): the results in the order of the tasks
BatchResults(units, offset, n) == [k \in 1..n |-> units[offset + k].result]

\* main: process_domains returns the batch's results, in input order
WidgetGather ==
    /\ pipeline = "widget"
    /\ pc = "gather"
    /\ LET group == BatchUnits(i, Len(domains))
       IN  IF GatherRaises(probes, group, widget_return_exceptions)
           THEN /\ pc' = "aborted"
                /\ error' = "check_domain raised"
                /\ probes' = CancelPending(probes)
                /\ UNCHANGED <<results, i>>
           ELSE /\ GatherDone(probes, group)
                /\ results' = results \o BatchResults(probes, i, Cardinality(group))
                /\ i' = i + batch_size
                /\ pc' = "loop"
                /\ UNCHANGED <<probes, error>>
    /\ UNCHANGED <<pipeline, csv_rows, disk, discoveryVars, domains, resultsFile, sink, sinkBy, lost>>

\* strftime('%Y%m%d_%H%M%S') at the time save_results runs
FileTimestamps == {"20240101_100002"}

\* save_results(results, output_filename): the file written and its rows
save_results(list, output_filename, timestamp) ==
    [name |-> "domain_check_results_" \o timestamp \o ".csv",
     rows |-> <<<<"Domain", "Valid", "Status", "VerifyPass", "Error">>>>
              \o [k \in 1..Len(list) |->
                    <<list[k].domain, BoolStr(list[k].valid), CsvField(list[k].status),
                      BoolStr(list[k].verifypass), CsvField(list[k].error)>>]]

\* main: the loop is over; the full results are written
WidgetFinish ==
    /\ pipeline = "widget"
    /\ pc = "loop"
    /\ i >= Len(domains)
    /\ \E timestamp \in FileTimestamps :
            resultsFile' = save_results(results, "domain_check_results.csv", timestamp)
    /\ pc' = "done"
    /\ UNCHANGED <<pipeline, csv_rows, disk, error, discoveryVars, domains, i, probes, results, sink, sinkBy, lost>>

(* ============================= script.py: locale ======================== *)

\* The markup of a response, as the parser and the regular expressions see it:
\*   locale   the value captured by  Shopify\.locale\s*=\s*["']([^"']+)["']
\*            ("" when the pattern does not match)
\*   metas    the <meta> tags in document order: property, name, content
\*   scripts  the <script> tags in document order, each one of
\*              "other"       no 'Shopify.shop' in its text
\*              "no_object"   'Shopify.shop' but no  Shopify.shop = {...}
\*              "bad_json"    the object literal is not valid JSON
\*              "country_IN"  valid JSON, country_code 'IN'
\*              "country_US"  valid JSON, another country_code
\*   currency the currency patterns (1..3) that match the markup
\*   text     the markup searched for the address substrings
Markup(locale, metas, scripts, currency, text) ==
    [locale |-> locale, metas |-> metas, scripts |-> scripts, currency |-> currency,
     text |-> text]

Meta(property, name, content) == [property |-> property, name |-> name, content |-> content]

LocaleBodies ==
    { Markup("en-US", << Meta("og:locale", "", "en_US"),
                         Meta("", "shopify-digital-wallet", "/shop/777") >>,
             <<"bad_json", "country_US", "no_object">>, {}, "<html>zip code</html>"),
      Markup("en-IN", <<>>, <<"other">>, {}, "<html>namaste</html>"),
      Markup("", << Meta("og:locale", "", "en_IN"), Meta("og:locale", "", "hi_in"),
                    Meta("", "shopify-digital-wallet", "/wallets/shop/12345/digital") >>,
             <<>>, {}, "<html>shop</html>"),
      Markup("", <<>>, <<>>, {}, "<input id=PinCode><label for=pin-code>India-Post"),
      Markup("hi-in", << Meta("og:locale", "", "en_IN") >>, <<"country_IN", "other">>, {1, 3},
             "<input name=pincode>") }

FirstIndex(s, p) == CHOOSE k \in 1..(Len(s) - Len(p) + 1) :
                        /\ SubSeq(s, k, k + Len(p) - 1) = p
                        /\ \A j \in 1..(k - 1) : SubSeq(s, j, j + Len(p) - 1) # p

RECURSIVE AfterLast(_, _)
\* s.split(p)[-1]
AfterLast(s, p) ==
    IF Contains(s, p) THEN AfterLast(SubSeq(s, FirstIndex(s, p) + Len(p), Len(s)), p) ELSE s

\* s.split(p)[0]
BeforeFirst(s, p) == IF Contains(s, p) THEN SubSeq(s, 1, FirstIndex(s, p) - 1) ELSE s

\* the meta loop: data['country_code'] = 'IN' for an og:locale tag whose content has IN
MetaCountry(metas) ==
    \E m \in 1..Len(metas) :
        metas[m].property = "og:locale" /\ Contains(Upper(metas[m].content), "IN")

\* Variant: the meta loop sets the country code without appending an indicator
MetaLocaleIndicatorsNone(metas) == <<>>

RECURSIVE MetaLocaleIndicators(_)
\* the meta loop: one 'Meta locale: IN' for every og:locale tag whose content has IN
MetaLocaleIndicators(metas) ==
    IF metas = <<>> THEN <<>>
    ELSE (IF Head(metas).property = "og:locale" /\ Contains(Upper(Head(metas).content), "IN")
          THEN <<"Meta locale: IN">> ELSE <<>>)
         \o MetaLocaleIndicators(Tail(metas))

RECURSIVE MetaShopId(_, _)
\* the meta loop: the shop id of the last shopify-digital-wallet tag with '/shop/'
MetaShopId(metas, shop_id) ==
    IF metas = <<>> THEN shop_id
    ELSE MetaShopId(Tail(metas),
            IF Head(metas).name = "shopify-digital-wallet" /\ Contains(Head(metas).content, "/shop/")
            THEN BeforeFirst(AfterLast(Head(metas).content, "/shop/"), "/")
            ELSE shop_id)

\* the script loop: data['country_code'] = 'IN' for a Shopify.shop object of country IN
ScriptCountry(scripts) == \E m \in 1..Len(scripts) : scripts[m] = "country_IN"

RECURSIVE ScriptIndicators(_)
\* the script loop: one 'Shopify.shop country: IN' for every script whose
\* Shopify.shop object parses and has country_code 'IN'
ScriptIndicators(scripts) ==
    IF scripts = <<>> THEN <<>>
    ELSE (IF Head(scripts) = "country_IN" THEN <<"Shopify.shop country: IN">> ELSE <<>>)
         \o ScriptIndicators(Tail(scripts))

\* the currency loop: the first matching pattern adds the indicator, then break
CurrencyIndicators(currency) ==
    IF currency # {} THEN <<"Currency: INR">> ELSE <<>>

address_indicators == <<"pin-code", "pincode", "postal-code-in", "india-zip", "india-post">>

RECURSIVE AddressIndicators(_, _)
\* the address loop: one indicator for every substring found
AddressIndicators(list, text) ==
    IF list = <<>> THEN <<>>
    ELSE (IF Contains(Lower(text), Head(list))
          THEN <<"Indian address format: " \o Head(list)>> ELSE <<>>)
         \o AddressIndicators(Tail(list), text)

extract_shopify_data(html_content) ==
    LET localeIN   == html_content.locale # "" /\ Contains(Upper(html_content.locale), "IN")
        localeInd  == IF localeIN THEN <<"Shopify locale: IN">> ELSE <<>>
        metaInd    == MetaLocaleIndicators(html_content.metas)
        scriptInd  == ScriptIndicators(html_content.scripts)
    IN  [country_code |-> IF \/ localeIN
                             \/ MetaCountry(html_content.metas)
                             \/ ScriptCountry(html_content.scripts)
                          THEN "IN" ELSE None,
         shop_id      |-> MetaShopId(html_content.metas, None),
         indicators   |-> localeInd \o metaInd \o scriptInd
                          \o CurrencyIndicators(html_content.currency)
                          \o AddressIndicators(address_indicators, html_content.text)]

\* extract_shopify_data on every response body, computed once
ShopifyDataOf == [html_content \in LocaleBodies |-> extract_shopify_data(html_content)]

\* Variant: no cap at 100
ConfidenceUncapped(indicators) == Len(indicators) * 25

\* confidence = min(len(indicators) * 25, 100)
Confidence(indicators) == Min(Len(indicators) * 25, 100)

\* check_domain: the two conditions under which a result is saved
ShouldSave(shopify_data) ==
    /\ shopify_data.country_code = "IN" \/ shopify_data.indicators # <<>>
    /\ Confidence(shopify_data.indicators) >= 25

\* with open(INDIAN_DOMAINS_FILE, 'a'): writer.writerow([...])
save_indian_domain(file, domain, confidence, indicators, country_code, shop_id, current_time) ==
    Append(file, <<domain, Str(confidence), indicators, CsvField(country_code),
                   CsvField(shop_id), current_time>>)

\* check_domain's "except Exception: pass": the unit returns None
LocaleExcept(probe, e) ==
    [probe EXCEPT !.st = "done", !.ret = "None", !.outcome = OutcomeOf(e)]

\* gather(*tasks, return_exceptions=True) in process_domains
locale_return_exceptions == TRUE

\* main: domains = load_domains_from_csv(csv_file)
LocaleLoad ==
    /\ pipeline = "locale"
    /\ pc = "main"
    /\ domains' = load_domains_from_csv(csv_rows)
    /\ i' = 0
    /\ pc' = "loop"
    /\ UNCHANGED <<pipeline, csv_rows, disk, error, discoveryVars, probes, results, resultsFile, sink, sinkBy, lost>>

\* main: one iteration of the batch loop, up to the await in process_domains
LocaleDispatch ==
    /\ pipeline = "locale"
    /\ pc = "loop"
    /\ i < Len(domains)
    /\ probes' = Dispatch(probes, domains, i)
    /\ pc' = "gather"
    /\ UNCHANGED <<pipeline, csv_rows, disk, error, discoveryVars, domains, i, results, resultsFile,
                   sink, sinkBy, lost>>

\* check_domain: the response of session.get arrives (or the request raises)
LocaleResponse(u) ==
    /\ pipeline = "locale"
    /\ pc = "gather"
    /\ u \in DOMAIN probes
    /\ probes[u].st = "requested"
    /\ \/ \E status \in StatusCodes :
            probes' = [probes EXCEPT ![u] =
                IF status # "200"
                THEN [@ EXCEPT !.st = "done", !.ret = "None", !.outcome = "NonOkStatus",
                               !.status = status]
                ELSE [@ EXCEPT !.st = "reading", !.status = status]]
       \/ \E e \in Exceptions :
            probes' = [probes EXCEPT ![u] = LocaleExcept(@, e)]
    /\ UNCHANGED <<pipeline, csv_rows, disk, pc, error, discoveryVars, domains, i, results, resultsFile,
                   sink, sinkBy, lost>>

\* check_domain: response.text() arrives (or raises); the indicators are
\* extracted and a qualifying result is saved
LocaleText(u) ==
    /\ pipeline = "locale"
    /\ pc = "gather"
    /\ u \in DOMAIN probes
    /\ probes[u].st = "reading"
    /\ \/ \E html_content \in LocaleBodies, current_time \in Timestamps :
            LET shopify_data == ShopifyDataOf[html_content]
            IN  /\ IF ShouldSave(shopify_data)
                   THEN /\ sink' = save_indian_domain(sink, probes[u].domain,
                                        Confidence(shopify_data.indicators),
                                        Join(", ", shopify_data.indicators),
                                        shopify_data.country_code, shopify_data.shop_id,
                                        current_time)
                        /\ sinkBy' = Append(sinkBy, u)
                        /\ UNCHANGED lost
                   ELSE UNCHANGED <<sink, sinkBy, lost>>
                /\ probes' = [probes EXCEPT ![u] =
                        [@ EXCEPT !.st = "done", !.ret = "None", !.outcome = "Ok",
                                  !.body = html_content]]
       \/ \* open(INDIAN_DOMAINS_FILE, 'a') raises inside save_indian_domain:
          \* the handler of check_domain passes
          /\ AppendFails
          /\ \E html_content \in LocaleBodies : ShouldSave(ShopifyDataOf[html_content])
          /\ probes' = [probes EXCEPT ![u] = LocaleExcept(@, DiskError)]
          /\ lost' = lost \cup {u}
          /\ UNCHANGED <<sink, sinkBy>>
       \/ /\ \E e \in Exceptions :
                probes' = [probes EXCEPT ![u] = LocaleExcept(@, e)]
          /\ UNCHANGED <<sink, sinkBy, lost>>
    /\ UNCHANGED <<pipeline, csv_rows, disk, pc, error, discoveryVars, domains, i, results, resultsFile>>

\* main: process_domains returns; the loop goes on to the next batch
LocaleGather ==
    /\ pipeline = "locale"
    /\ pc = "gather"
    /\ LET group == BatchUnits(i, Len(domains))
       IN  IF GatherRaises(probes, group, locale_return_exceptions)
           THEN /\ pc' = "aborted"
                /\ error' = "check_domain raised"
                /\ probes' = CancelPending(probes)
                /\ UNCHANGED i
           ELSE /\ GatherDone(probes, group)
                /\ i' = i + batch_size
                /\ pc' = "loop"
                /\ UNCHANGED <<probes, error>>
    /\ UNCHANGED <<pipeline, csv_rows, disk, discoveryVars, domains, results, resultsFile, sink, sinkBy, lost>>

\* main: the loop is over
LocaleFinish ==
    /\ pipeline = "locale"
    /\ pc = "loop"
    /\ i >= Len(domains)
    /\ pc' = "done"
    /\ UNCHANGED <<pipeline, csv_rows, disk, error, discoveryVars, probingVars, sink, sinkBy, lost>>

(* ============================ specification ============================= *)

Next ==
    \/ LoadModule
    \/ MainArgs
    \/ LastPageFinder
    \/ Fetch
    \/ \E page_num \in 1..(MaxPage + 1) : ScrapeResponse(page_num)
    \/ \E page_num \in 1..(MaxPage + 1) : ScrapeText(page_num)
    \/ FetchGather
    \/ WidgetLoad
    \/ WidgetDispatch
    \/ \E u \in 1..(MaxDomains + 1) : WidgetResponse(u)
    \/ \E u \in 1..(MaxDomains + 1) : WidgetText(u)
    \/ WidgetGather
    \/ WidgetFinish
    \/ LocaleLoad
    \/ LocaleDispatch
    \/ \E u \in 1..(MaxDomains + 1) : LocaleResponse(u)
    \/ \E u \in 1..(MaxDomains + 1) : LocaleText(u)
    \/ LocaleGather
    \/ LocaleFinish

Spec == Init /\ [][Next]_vars

(* ============================== properties ============================== *)

Probing == pipeline \in {"widget", "locale"}

\* The rows of the sink that unit u appended
RowsBy(u) == {k \in 1..Len(sinkBy) : sinkBy[k] = u}

\* The units of the batch that position u belongs to
GroupOf(u) == {v \in DOMAIN probes : BatchOf(v) = BatchOf(u)}

(* C1: in both probing pipelines, no unit of a later batch has started    *)
(* while a unit of an earlier batch has not yet returned.                 *)
BatchSequencing ==
    Probing =>
        \A u \in DOMAIN probes : \A v \in DOMAIN probes :
            BatchOf(v) < BatchOf(u) => probes[v].st = "done"

\* A unit of the second batch is in flight, after a full first batch
BatchSequencingWitness ==
    /\ pipeline = "locale"
    /\ \E u \in DOMAIN probes : BatchOf(u) = 1 /\ probes[u].st = "requested"
    /\ Cardinality({v \in DOMAIN probes : BatchOf(v) = 0}) = batch_size

\* Whether a unit's fetch failed, and whether it ended with a record to save
ProbeFailed(u) == probes[u].outcome \in {"NonOkStatus", "Timeout", "OtherError"}

ProbeQualifies(u) ==
    /\ probes[u].outcome = "Ok"
    /\ IF pipeline = "widget" THEN probes[u].body \in MarkedBodies
       ELSE ShopifyDataOf[probes[u].body].indicators # <<>>

(* C2: a failed fetch of one unit never aborts the run nor cancels a      *)
(* sibling: the run aborts only before any unit is dispatched, no unit is *)
(* cancelled, every unit that succeeds has its records in the sink, and a *)
(* finished run has dispatched and completed every unit of every batch.   *)
PartialFailureIsolation ==
    /\ pc = "aborted" => tasks = <<>> /\ probes = <<>>
    /\ \A p \in DOMAIN tasks : tasks[p].ret # "cancelled"
    /\ \A u \in DOMAIN probes : probes[u].ret # "cancelled"
    /\ \A p \in DOMAIN tasks :
          tasks[p].ret = "list" =>
              \A j \in 1..Len(tasks[p].page_domains) :
                  \E k \in RowsBy(p) : sink[k][2] = tasks[p].page_domains[j]
    /\ \A u \in DOMAIN probes :
          (probes[u].st = "done" /\ ProbeQualifies(u)) =>
              \E k \in RowsBy(u) : sink[k][1] = probes[u].domain
    /\ pc = "done" =>
          /\ \A p \in DOMAIN tasks : tasks[p].st = "done"
          /\ \A u \in DOMAIN probes : probes[u].st = "done"
          /\ Probing => DOMAIN probes = 1..Len(domains)

\* A finished widget run of two batches in whose first batch one unit timed
\* out and its sibling's detection is in the sink
PartialFailureIsolationWitness ==
    /\ pipeline = "widget"
    /\ pc = "done"
    /\ Len(domains) > batch_size
    /\ \E u \in DOMAIN probes : \E v \in GroupOf(u) :
          /\ BatchOf(u) = 0
          /\ probes[u].outcome = "Timeout"
          /\ ProbeQualifies(v)
          /\ RowsBy(v) # {}

(* C3: once fetch has dispatched for a last-page value L >= 1, there is   *)
(* exactly one scrape unit for every page 1..L, L included.               *)
FanOutCoversLastPage ==
    (/\ pipeline = "discovery"
     /\ pc \in {"gather", "done"}
     /\ last_page.type = "int"
     /\ last_page.val >= 1)
    => DOMAIN tasks = 1..last_page.val

(* C4: a probing run emits at most one ProbeResult and at most one sink   *)
(* row for each distinct domain, also when the input repeats a domain.    *)
AtMostOnePerDomain ==
    Probing =>
        /\ \A k1 \in 2..Len(sink) : \A k2 \in 2..Len(sink) :
              sink[k1][1] = sink[k2][1] => k1 = k2
        /\ \A k1 \in 1..Len(results) : \A k2 \in 1..Len(results) :
              results[k1].domain = results[k2].domain => k1 = k2

(* C5: every unit of the widget pipeline returns a ProbeResult whatever   *)
(* its outcome, and when the run has ended the full-results file holds    *)
(* the header and exactly one row per input entry, the row of a timed-out *)
(* domain being valid=False with error 'Timeout'.                         *)
WidgetCompleteness ==
    pipeline = "widget" =>
        /\ \A u \in DOMAIN probes : probes[u].st = "done" => probes[u].ret = "dict"
        /\ pc = "done" =>
              /\ Len(resultsFile.rows) = Len(domains) + 1
              /\ \A k \in 1..Len(domains) :
                    LET row == resultsFile.rows[k + 1]
                    IN  /\ row[1] = probes[k].domain
                        /\ probes[k].outcome = "Timeout" =>
                              row = <<probes[k].domain, "False", "", "False", "Timeout">>
                        /\ probes[k].outcome = "Ok" => row[2] = "True" /\ row[5] = ""
                        /\ probes[k].outcome \in {"NonOkStatus", "OtherError"} =>
                              row[2] = "False" /\ row[5] # "" /\ row[5] # "Timeout"

\* A finished widget run with a timed-out domain among several
WidgetCompletenessWitness ==
    /\ pipeline = "widget"
    /\ pc = "done"
    /\ Len(domains) >= 2
    /\ \E u \in DOMAIN probes : probes[u].outcome = "Timeout"
    /\ \E u \in DOMAIN probes : probes[u].outcome = "Ok"

(* C6: in the widget pipeline a unit has appended a row to the sink if    *)
(* and only if its fetch returned status 200 and its body carries a       *)
(* marker in some letter case; the row names the unit's domain and the    *)
(* status 200.                                                            *)
WidgetSinkContent ==
    pipeline = "widget" =>
        /\ \A u \in DOMAIN probes :
              Cardinality(RowsBy(u)) =
                  IF /\ probes[u].st = "done"
                     /\ probes[u].outcome = "Ok"
                     /\ probes[u].status = "200"
                     /\ probes[u].body \in MarkedBodies
                  THEN 1 ELSE 0
        /\ \A k \in 2..Len(sink) :
              /\ sinkBy[k] \in DOMAIN probes
              /\ sink[k][1] = probes[sinkBy[k]].domain
              /\ sink[k][3] = "200"

\* One unit's marked body is in the sink while units with a plain body, a
\* non-200 status and a timeout have left no row
WidgetSinkContentWitness ==
    /\ pipeline = "widget"
    /\ \E u \in DOMAIN probes :
          probes[u].outcome = "Ok" /\ probes[u].body \in MarkedBodies /\ RowsBy(u) # {}
    /\ \E u \in DOMAIN probes :
          probes[u].outcome = "Ok" /\ probes[u].body \in PlainBodies /\ RowsBy(u) = {}
    /\ \E u \in DOMAIN probes :
          probes[u].outcome \in {"NonOkStatus", "Timeout"} /\ RowsBy(u) = {}

RECURSIVE CountSeparators(_)
\* The number of ', ' in a joined indicator field
CountSeparators(field) ==
    IF Len(field) < 2 THEN 0
    ELSE (IF SubSeq(field, 1, 2) = ", " THEN 1 ELSE 0)
         + CountSeparators(SubSeq(field, 2, Len(field)))

\* The Indicators fields the response bodies give rise to, and the number of
\* indicators each one lists
IndicatorFields == {Join(", ", ShopifyDataOf[b].indicators) : b \in LocaleBodies}
IndicatorCount ==
    [field \in IndicatorFields |-> IF field = "" THEN 0 ELSE CountSeparators(field) + 1]

(* C7: in the locale pipeline every sink row comes from a unit whose      *)
(* fetch was Ok (status 200), lists n >= 1 indicators and has confidence  *)
(* min(100, 25n), never 0; a unit whose outcome is Timeout, OtherError or *)
(* NonOkStatus, or Ok with no indicator, appends no row; no unit raises.  *)
LocaleSinkContent ==
    pipeline = "locale" =>
        /\ \A k \in 2..Len(sink) :
              /\ sinkBy[k] \in DOMAIN probes
              /\ probes[sinkBy[k]].outcome = "Ok"
              /\ probes[sinkBy[k]].status = "200"
              /\ sink[k][3] \in IndicatorFields
              /\ IndicatorCount[sink[k][3]] >= 1
              /\ sink[k][2] = Str(Min(100, 25 * IndicatorCount[sink[k][3]]))
              /\ sink[k][2] \in {"25", "50", "75", "100"}
        /\ \A u \in DOMAIN probes :
              (\/ ProbeFailed(u)
               \/ probes[u].outcome = "Ok" /\ ShopifyDataOf[probes[u].body].indicators = <<>>)
              => RowsBy(u) = {}
        /\ \A u \in DOMAIN probes : probes[u].ret # "exception"
        /\ pc # "aborted"

\* A capped row (five indicators, confidence 100) is in the sink, while a
\* timed-out unit and an Ok unit without indicators have left none
LocaleSinkContentWitness ==
    /\ pipeline = "locale"
    /\ \E k \in 2..Len(sink) : sink[k][2] = "100" /\ IndicatorCount[sink[k][3]] = 5
    /\ \E u \in DOMAIN probes : probes[u].outcome = "Timeout" /\ RowsBy(u) = {}
    /\ \E u \in DOMAIN probes :
          /\ probes[u].outcome = "Ok"
          /\ ShopifyDataOf[probes[u].body].indicators = <<>>
          /\ RowsBy(u) = {}

\* The checks (numbered as in the design: 1, 2, 4, 5, 6) that fire on a body
ChecksFired(b) ==
    (IF b.locale # "" /\ Contains(Upper(b.locale), "IN") THEN {1} ELSE {})
    \cup (IF \E m \in 1..Len(b.metas) :
                b.metas[m].property = "og:locale" /\ Contains(Upper(b.metas[m].content), "IN")
          THEN {2} ELSE {})
    \cup (IF \E m \in 1..Len(b.scripts) : b.scripts[m] = "country_IN" THEN {4} ELSE {})
    \cup (IF b.currency # {} THEN {5} ELSE {})
    \cup (IF \E m \in 1..Len(address_indicators) :
                Contains(Lower(b.text), address_indicators[m])
          THEN {6} ELSE {})

ChecksFiredOn == [b \in LocaleBodies |-> ChecksFired(b)]

(* C8: the confidence of every locale row is min(100, 25k) for the number *)
(* k of checks that fired on the body, each check counting once however   *)
(* many of its tags or substrings match.                                  *)
ConfidenceCountsChecks ==
    pipeline = "locale" =>
        \A k \in 2..Len(sink) :
            sink[k][2] = Str(Min(100, 25 * Cardinality(ChecksFiredOn[probes[sinkBy[k]].body])))

(* C9: in discovery, at every point of the run, every scrape unit that    *)
(* has returned a list has a sink row (page, domain, timestamp) for each  *)
(* domain of that list.                                                   *)
IncrementalDurability ==
    pipeline = "discovery" =>
        \A p \in DOMAIN tasks :
            tasks[p].ret = "list" =>
                \A j \in 1..Len(tasks[p].page_domains) :
                    \E k \in 2..Len(sink) :
                        /\ sink[k][1] = Str(p)
                        /\ sink[k][2] = tasks[p].page_domains[j]
                        /\ sink[k][3] \in Timestamps

\* One page has returned two domains while another page is still in flight
IncrementalDurabilityWitness ==
    /\ pipeline = "discovery"
    /\ pc = "gather"
    /\ \E p \in DOMAIN tasks : tasks[p].ret = "list" /\ Len(tasks[p].page_domains) = 2
    /\ \E p \in DOMAIN tasks : tasks[p].st # "done"

\* The sink holds its header, and no unit has been dispatched without it
HeaderFirst ==
    /\ pc = "load" => tasks = <<>> /\ probes = <<>>
    /\ pc # "load" =>
          /\ Len(sink) >= 1
          /\ sink[1] = Header(pipeline)
          /\ \A k \in 2..Len(sink) :
                Len(sink[k]) = Len(Header(pipeline)) /\ sink[k] # Header(pipeline)

(* C10: in each pipeline the header is written before any unit is         *)
(* dispatched, the sink is always the header followed by data rows, and   *)
(* every step leaves the sink's content as a prefix of its new content.   *)
SinkAppendOnly == [](HeaderFirst) /\ [][IsPrefix(sink, sink')]_vars

\* The header followed by the rows of two different units
SinkAppendOnlyWitness ==
    /\ Len(sink) >= 3
    /\ sink[1] = Header(pipeline)
    /\ sinkBy[2] # sinkBy[3]

(* C11 *)

NegativeOverride == Len(sys_argv) > 0 /\ sys_argv[1] < 0

\* last_page_finder received a landing page without a pagination control
NoPaginationControl == landing # NoLanding /\ landing.pagination = <<>>

\* C11: in a discovery run given a negative last-page override, or whose
\* landing page has no pagination control, no page-fetch unit is ever
\* dispatched and the sink never gets a data row; once the override is
\* validated or the landing page is read the run has failed (with the
\* argument error, 'Invalid Domain Zone', or, for a landing page that did not
\* answer 200, in the fan-out that follows at once).
ResolverFailureAborts ==
    pipeline = "discovery" =>
        /\ (NegativeOverride \/ NoPaginationControl) =>
                /\ tasks = <<>>
                /\ Len(sink) <= 1
                /\ pc \notin {"gather", "done"}
        /\ (NegativeOverride /\ pc \notin {"load", "main"}) =>
                pc = "aborted" /\ error = "Last Page cannot be less than 0"
        /\ (NoPaginationControl /\ landing.status = "200") =>
                pc = "aborted" /\ error = "Invalid Domain Zone"
        /\ (NoPaginationControl /\ landing.status # "200") =>
                \/ pc = "fetch" /\ last_page = PyNone
                \/ pc = "aborted"

ResolverFailureAbortsWitness ==
    /\ pipeline = "discovery"
    /\ pc = "aborted"
    /\ error = "Invalid Domain Zone"
    /\ landing = [status |-> "200", pagination |-> <<>>]
    /\ tasks = <<>>
    /\ sink = <<Header("discovery")>>

(* C12 *)

SpecUrl == InitUrl /\ [][Next]_vars

\* A string carries a scheme when it holds "://"
HasScheme == [d \in DomainNames \cup UrlNames |-> Contains(d, "://")]

\* C12: in both probers the requested URL of every unit is 'https://' +
\* domain when the domain string carries no scheme (also when its name begins
\* with the letters 'http'), and the string unchanged when it carries one.
UrlNormalisation ==
    Probing =>
        \A u \in DOMAIN probes :
            probes[u].domain = IF HasScheme[domains[u]] THEN domains[u]
                               ELSE "https://" \o domains[u]

(* C13 *)

\* C13: the widget pipeline writes its per-domain results to the fixed file
\* name 'domain_check_results.csv' that main passes to save_results, not to
\* the timestamped name computed there.
FullResultsDestination ==
    (pipeline = "widget" /\ pc = "done") =>
        /\ resultsFile # NoFile
        /\ resultsFile.name = "domain_check_results.csv"

(* C14 *)

\* The positions of the sink written by unit u lie next to each other
Contiguous(u) ==
    \A a \in RowsBy(u), b \in RowsBy(u) : \A k \in a..b : sinkBy[k] = u

\* The position in the sink of the j-th row that unit u appended
RowOf(u, j) == CHOOSE k \in RowsBy(u) : Cardinality({m \in RowsBy(u) : m <= k}) = j

\* C14: under every interleaving of the units, no append to the sink is
\* interleaved with another unit's append: every row of the sink is whole (it
\* has the fields of the header), the rows of one unit are contiguous, a
\* prober unit appends at most one row, and the rows save_to_csv wrote for a
\* page are that page's domains, in order, one block.
SerialisedAppends ==
    /\ Len(sinkBy) = Len(sink)
    /\ \A k \in 1..Len(sink) : Len(sink[k]) = Len(Header(pipeline))
    /\ \A u \in (DOMAIN tasks) \cup (DOMAIN probes) : Contiguous(u)
    /\ \A u \in DOMAIN probes : Cardinality(RowsBy(u)) <= 1
    /\ \A page_num \in DOMAIN tasks :
            (tasks[page_num].st = "done" /\ tasks[page_num].ret = "list") =>
                LET page_domains == tasks[page_num].page_domains
                IN  /\ Cardinality(RowsBy(page_num)) = Len(page_domains)
                    /\ \A j \in 1..Len(page_domains) :
                            /\ sink[RowOf(page_num, j)][1] = Str(page_num)
                            /\ sink[RowOf(page_num, j)][2] = page_domains[j]

\* Two pages of two domains each were saved, page 2 before page 1
SerialisedAppendsWitness ==
    /\ pipeline = "discovery"
    /\ sinkBy = <<0, 2, 2, 1, 1>>
    /\ \A page_num \in {1, 2} : tasks[page_num].st = "done"
    /\ sink[2][2] = "a.com" /\ sink[3][2] = "b.com"

(* C15 *)

\* C15: whatever the landing page's response, once last_page_finder has
\* received it the resolver has either returned an integer page number or
\* failed with 'Invalid Domain Zone'; the fan-out never gets a non-integer.
ResolverOutcome ==
    (pipeline = "discovery" /\ landing # NoLanding) =>
        \/ last_page.type = "int"
        \/ pc = "aborted" /\ error = "Invalid Domain Zone"

(* C16 *)

ShapeOk(r) == r.valid /\ r.status = "200" /\ r.error = None

ShapeNonOkStatus(r) ==
    /\ ~r.valid /\ ~r.verifypass
    /\ r.status \notin {None, "200"}
    /\ r.error = "Invalid status code: " \o r.status

ShapeTimeout(r) ==
    ~r.valid /\ ~r.verifypass /\ r.status = None /\ r.error = "Timeout"

ShapeOtherError(r) ==
    ~r.valid /\ ~r.verifypass /\ r.status = None /\ r.error \notin {None, "Timeout"}

\* The shapes a result has
ShapesOf(r) ==
    {sh \in {"Ok", "NonOkStatus", "Timeout", "OtherError"} :
        CASE sh = "Ok"          -> ShapeOk(r)
          [] sh = "NonOkStatus" -> ShapeNonOkStatus(r)
          [] sh = "Timeout"     -> ShapeTimeout(r)
          [] sh = "OtherError"  -> ShapeOtherError(r)}

\* C16: every result of the widget prober has exactly one of the four shapes
\* Ok, NonOkStatus, Timeout, OtherError, the one of the unit's outcome; so
\* verifypass implies valid, and valid holds iff error is None.
OutcomeClassification ==
    pipeline = "widget" =>
        /\ \A u \in DOMAIN probes :
                probes[u].ret = "dict" =>
                    LET r == probes[u].result
                    IN  /\ ShapesOf(r) = {probes[u].outcome}
                        /\ r.verifypass => r.valid
                        /\ r.valid <=> (r.error = None)
        /\ \A k \in 1..Len(results) :
                /\ Cardinality(ShapesOf(results[k])) = 1
                /\ results[k].verifypass => results[k].valid
                /\ results[k].valid <=> (results[k].error = None)

\* A finished run whose three results are an Ok with the widget, a
\* NonOkStatus and a Timeout
OutcomeClassificationWitness ==
    /\ pipeline = "widget"
    /\ pc = "done"
    /\ Len(results) = 3
    /\ ShapeOk(results[1]) /\ results[1].verifypass
    /\ ShapeNonOkStatus(results[2])
    /\ ShapeTimeout(results[3])

(* C17 *)

SpecFault == InitFault /\ [][Next]_vars

\* C17: in every pipeline a failed append to the sink aborts the run: no run
\* goes on to its next batch or reports completion after an append has
\* failed and its record is missing.
SinkFailureFatal ==
    lost # {} => pc \notin {"loop", "done"}

(* C18 *)

\* Every request issued eventually responds, errors or times out, and the
\* event loop runs a coroutine that is ready
FairSpec == InitFair /\ [][Next]_vars /\ WF_vars(Next)

\* A unit, once dispatched, stays dispatched, is never put back to an earlier
\* step, and keeps its outcome once it has one
AttemptedOnce(units, units2) ==
    \A u \in DOMAIN units :
        /\ u \in DOMAIN units2
        /\ units[u].st = "done" => units2[u] = units[u]
        /\ units[u].st # "requested" => units2[u].st # "requested"

\* C18: provided every request is answered, every dispatched unit eventually
\* completes or fails and is attempted exactly once, every batch's gather
\* point is eventually reached, and the run of a prober eventually finishes
\* with every input entry attempted, the widget pipeline having written its
\* full-results file after the last batch.
RunTermination ==
    /\ [][AttemptedOnce(probes, probes') /\ AttemptedOnce(tasks, tasks')]_vars
    /\ \A u \in 1..MaxDomains :
            (u \in DOMAIN probes) ~> (u \in DOMAIN probes /\ probes[u].st = "done")
    /\ \A page_num \in 1..MaxPage :
            (page_num \in DOMAIN tasks) ~>
                (page_num \in DOMAIN tasks /\ tasks[page_num].st = "done")
    /\ (Probing /\ pc = "gather") ~> (pc = "loop")
    /\ (pipeline = "discovery" /\ pc = "gather") ~> (pc = "done")
    /\ Probing ~> (/\ pc = "done"
                   /\ DOMAIN probes = 1..Len(csv_rows)
                   /\ \A u \in DOMAIN probes : probes[u].st = "done"
                   /\ pipeline = "widget" =>
                        /\ resultsFile # NoFile
                        /\ Len(resultsFile.rows) = Len(csv_rows) + 1)

\* A widget run over three entries has finished its two batches and written
\* the full-results file
RunTerminationWitness ==
    /\ pipeline = "widget"
    /\ pc = "done"
    /\ Len(csv_rows) = 3
    /\ \A u \in 1..3 : probes[u].st = "done"
    /\ Len(resultsFile.rows) = 4

(* C19 *)

\* C19: for every response body the locale prober has read, when
\* extract_shopify_data returns country_code 'IN' its indicator list is not
\* empty; so the emission condition (country_code is IN or indicators
\* non-empty) never holds with a confidence below 25, and every result with
\* country_code 'IN' is saved, with 'IN' in its Country_Code field.
CountryImpliesIndicators ==
    pipeline = "locale" =>
        \A u \in DOMAIN probes :
            probes[u].outcome = "Ok" =>
                LET data == ShopifyDataOf[probes[u].body]
                IN  /\ data.country_code = "IN" => data.indicators # <<>>
                    /\ (data.country_code = "IN" \/ data.indicators # <<>>) =>
                            Confidence(data.indicators) >= 25
                    /\ data.country_code = "IN" =>
                            \E k \in RowsBy(u) : sink[k][4] = "IN"

\* A body whose only evidence is its og:locale tags was read and saved with
\* country code IN, and a body with address evidence only was saved without
CountryImpliesIndicatorsWitness ==
    /\ pipeline = "locale"
    /\ \E u \in DOMAIN probes, v \in DOMAIN probes :
            /\ probes[u].outcome = "Ok" /\ probes[v].outcome = "Ok"
            /\ ShopifyDataOf[probes[u].body].country_code = "IN"
            /\ probes[u].body.locale = "" /\ probes[u].body.scripts = <<>>
            /\ \E k \in RowsBy(u) : sink[k][4] = "IN"
            /\ ShopifyDataOf[probes[v].body].country_code = None
            /\ RowsBy(v) # {}

(* C20 *)

\* C20: whatever the order in which the units of a batch complete, the
\* results list of the widget pipeline is in input order after every gather,
\* the k-th result being that of the k-th input entry, and so are the data
\* rows of the full-results file.
ResultsInInputOrder ==
    (pipeline = "widget" /\ pc \in {"loop", "done"}) =>
        /\ Len(results) = Min(i, Len(csv_rows))
        /\ \A k \in 1..Len(results) :
                /\ results[k] = probes[k].result
                /\ results[k].domain = EnsureScheme(csv_rows[k])
        /\ pc = "done" =>
                \A k \in 1..Len(csv_rows) :
                    resultsFile.rows[k + 1] =
                        <<probes[k].result.domain, BoolStr(probes[k].result.valid),
                          CsvField(probes[k].result.status),
                          BoolStr(probes[k].result.verifypass),
                          CsvField(probes[k].result.error)>>

\* In a batch of two different domains the second unit completed (and saved
\* its detection) before the first, and the run has written its results
ResultsInInputOrderWitness ==
    /\ pipeline = "widget"
    /\ pc = "done"
    /\ Len(sinkBy) >= 3 /\ sinkBy[2] = 2 /\ sinkBy[3] = 1
    /\ csv_rows[1] # csv_rows[2]
    /\ resultsFile.rows[2][1] = EnsureScheme(csv_rows[1])
    /\ resultsFile.rows[3][1] = EnsureScheme(csv_rows[2])

====
